---- MODULE Spec2Model ----
(***************************************************************************)
(* Kapanak: spaced-repetition flashcards.                                  *)
(*                                                                         *)
(* The module models                                                       *)
(*   - the review policy (calculateNextReview) in its two variants, the    *)
(*     flat SM-2 schedule of src/js/sm2.js and the graduated schedule of   *)
(*     src/unnamed/part_001;                                               *)
(*   - the session controller (startStudy, startPractice, showCard,        *)
(*     revealCard, handleReview, undoLastAction, endStudy) in its two      *)
(*     variants, src/unnamed/part_002 ("new") and src/unnamed/part_003     *)
(*     ("old");                                                            *)
(*   - the card store behind CardDB (IndexedDB through Dexie).             *)
(*                                                                         *)
(* Time is counted in seconds.  Ease factors are counted in hundredths     *)
(* (2.5 is 250), so the SM-2 ease update is exact integer arithmetic.      *)
(* Array positions are 0-based as in the source; a sequence position is    *)
(* the array index plus one.                                               *)
(*                                                                         *)
(* handleReview, undoLastAction, startStudy and startPractice are async    *)
(* functions with one await on the card store.  Each is modelled by a      *)
(* Begin action (the code up to the await) and a Done/Failed action (the   *)
(* code after it), so that other handlers can run while the store request  *)
(* is outstanding, as the browser's event loop allows.  Store requests are *)
(* served in the order they were issued (IndexedDB runs transactions with  *)
(* overlapping scope in creation order), hence the FIFO `pending`.         *)
(***************************************************************************)
EXTENDS Integers, Sequences, FiniteSets, TLC

VARIABLES
    variant,           \* which SM2 module is loaded: "flat" | "graduated"
    app,               \* which controller is loaded: "new" | "old"
    currentScreen,     \* let currentScreen
    studyQueue,        \* let studyQueue
    currentCardIndex,  \* let currentCardIndex
    reviewedCount,     \* let reviewedCount
    lastAction,        \* let lastAction: <<>> is null, <<a>> holds the entry a
    isPracticeMode,    \* let isPracticeMode
    flipped,           \* the card's answer side is shown (DOM class state)
    db,                \* the cards object store: db[id] is the card with key id
    pending,           \* async handler invocations awaiting the card store
    clock,             \* the wall clock as new Date() read it last
    nStarts,           \* history: sessions started so far
    nReviews,          \* history: ratings given so far
    toast,             \* toast.textContent, the message shown last
    hist,              \* history: the session as it was when the rating whose
                       \* review (and undo) ran alone since was given
    pcard,             \* policy runs: the card the policy is applied to
    pprev,             \* policy runs: the argument of the last policy call
    pq,                \* policy runs: the quality of the last policy call
    pqs,               \* policy runs: the qualities of the calls so far
    fromNew,           \* policy runs: pcard descends from createCard defaults
    parg,              \* policy runs: the argument object after the last call
    phint,             \* hint runs: the last getIntervalHint call, <<>> if none
    sortIn,            \* sort runs: the array given to sortCardsForReview
    sortOut            \* sort runs: the array it returned, <<>> before the call

sessionVars == <<currentScreen, studyQueue, currentCardIndex, reviewedCount,
                 lastAction, isPracticeMode, flipped, db, pending, clock,
                 nStarts, nReviews, toast, hist>>
policyVars == <<pcard, pprev, pq, pqs, fromNew, parg, phint, sortIn, sortOut>>
vars == <<variant, app, currentScreen, studyQueue, currentCardIndex,
          reviewedCount, lastAction, isPracticeMode, flipped, db, pending,
          clock, nStarts, nReviews, toast, hist, pcard, pprev, pq, pqs,
          fromNew, parg, phint, sortIn, sortOut>>

----------------------------------------------------------------------------
\* Bounds of the model.

NumCards == 3          \* cards in the store
MaxInFlight == 2       \* handler invocations awaiting the store at once
MaxTicks == 1          \* clock advances
MaxStarts == 2         \* sessions started
MaxReviews == 3        \* ratings given
MaxReps == 6           \* policy runs: repetitions of the card given at first
MaxCalls == 4          \* policy runs: reviews applied in a row

----------------------------------------------------------------------------
\* Program constants.

FailDelaySec == 60               \* 60 * 1000 ms
SecPerMin == 60
SecPerDay == 86400
MinEase == 130                   \* Math.max(1.3, newEF)
DefaultEase == 250               \* easeFactor: 2.5
EasyBonus == 130                 \* interval * 1.3
Null == -1                       \* lastReviewed: null

LEARNING_STEPS_MIN == <<10>>

\* Day steps that start with those of the flat schedule.
GraduatedDaysFlatStart == <<1, 6, 7, 14>>

GRADUATED_DAYS == <<1, 3, 7, 14>>

\* A schedule without a learning phase.
LearningCountNone == Len(LEARNING_STEPS_MIN) - 1

LEARNING_COUNT == Len(LEARNING_STEPS_MIN)

\* A day-step phase that ends one step early.
GraduatedCountShort == Len(GRADUATED_DAYS) - 1

GRADUATED_COUNT == Len(GRADUATED_DAYS)
MASTERY_THRESHOLD == LEARNING_COUNT + GRADUATED_COUNT

TickSec == FailDelaySec           \* granularity of the modelled clock

----------------------------------------------------------------------------
\* Arithmetic of the policy.

Max(a, b) == IF a >= b THEN a ELSE b

\* Math.round(n / d) for n >= 0, d > 0: round half up.
RoundDiv(n, d) == (2 * n + d) \div (2 * d)

\* The ease update without its quadratic term.
EaseDeltaLinear(q) == 10 - (5 - q) * 8

\* 100 * (0.1 - (5 - q) * (0.08 + (5 - q) * 0.02))
EaseDelta(q) == 10 - (5 - q) * (8 + (5 - q) * 2)

----------------------------------------------------------------------------
\* The review policy.

\* A failed review that clears the due date with the rest of the schedule.
FailedReviewClearsDue(card, now) ==
    [card EXCEPT !.lastReviewed = now,
                 !.repetitions = 0,
                 !.interval = 0,
                 !.dueDate = Null]

\* A failed review that lowers the ease factor as textbook SM-2 does.
FailedReviewLowersEase(card, now) ==
    [card EXCEPT !.lastReviewed = now,
                 !.repetitions = 0,
                 !.interval = 0,
                 !.dueDate = now + FailDelaySec,
                 !.easeFactor = Max(MinEase, card.easeFactor + EaseDelta(0))]

\* A failed review that leaves the card due at once.
FailedReviewDueNow(card, now) ==
    [card EXCEPT !.lastReviewed = now,
                 !.repetitions = 0,
                 !.interval = 0,
                 !.dueDate = now]

\* The failed-review branch, the same in both variants.
FailedReview(card, now) ==
    [card EXCEPT !.lastReviewed = now,
                 !.repetitions = 0,
                 !.interval = 0,
                 !.dueDate = now + FailDelaySec]

\* The new ease factor without its floor.
NewEaseNoFloor(card, quality) == card.easeFactor + EaseDelta(quality)

\* The new ease factor with its floor at 1.
NewEaseFloorOne(card, quality) == Max(100, card.easeFactor + EaseDelta(quality))

\* updated.easeFactor = Math.max(1.3, newEF)
NewEase(card, quality) == Max(MinEase, card.easeFactor + EaseDelta(quality))

\* The flat schedule with the next interval taken from the ease factor the
\* card had before the review.
calculateNextReviewFlatOldEase(card, quality, now) ==
    IF quality < 3 THEN FailedReview(card, now)
    ELSE
      LET ef == NewEase(card, quality)
          base == IF card.repetitions = 0 THEN 1
                  ELSE IF card.repetitions = 1 THEN 6
                  ELSE RoundDiv(card.interval * card.easeFactor, 100)
          ivl == IF quality = 5 THEN RoundDiv(base * EasyBonus, 100) ELSE base
      IN [card EXCEPT !.lastReviewed = now,
                      !.easeFactor = ef,
                      !.interval = ivl,
                      !.repetitions = card.repetitions + 1,
                      !.dueDate = now + ivl * SecPerDay]

\* src/js/sm2.js
calculateNextReviewFlat(card, quality, now) ==
    IF quality < 3 THEN FailedReview(card, now)
    ELSE
      LET ef == NewEase(card, quality)
          base == IF card.repetitions = 0 THEN 1
                  ELSE IF card.repetitions = 1 THEN 6
                  ELSE RoundDiv(card.interval * ef, 100)
          ivl == IF quality = 5 THEN RoundDiv(base * EasyBonus, 100) ELSE base
      IN [card EXCEPT !.lastReviewed = now,
                      !.easeFactor = ef,
                      !.interval = ivl,
                      !.repetitions = card.repetitions + 1,
                      !.dueDate = now + ivl * SecPerDay]

\* src/unnamed/part_001
calculateNextReviewGraduated(card, quality, now) ==
    IF quality < 3 THEN FailedReview(card, now)
    ELSE
      LET ef == NewEase(card, quality)
          rep == card.repetitions
          gradIndex == rep - LEARNING_COUNT
      IN
      IF rep < LEARNING_COUNT THEN
          IF quality = 5 THEN
              [card EXCEPT !.lastReviewed = now,
                           !.easeFactor = ef,
                           !.interval = GRADUATED_DAYS[1],
                           !.repetitions = LEARNING_COUNT + 1,
                           !.dueDate = now + GRADUATED_DAYS[1] * SecPerDay]
          ELSE
              [card EXCEPT !.lastReviewed = now,
                           !.easeFactor = ef,
                           !.interval = 0,
                           !.repetitions = rep + 1,
                           !.dueDate = now + LEARNING_STEPS_MIN[rep + 1] * SecPerMin]
      ELSE IF gradIndex < GRADUATED_COUNT THEN
          LET skip == quality = 5 /\ gradIndex + 1 < GRADUATED_COUNT
              ivl == IF skip THEN GRADUATED_DAYS[gradIndex + 2]
                     ELSE IF quality = 5
                          THEN RoundDiv(GRADUATED_DAYS[gradIndex + 1] * EasyBonus, 100)
                          ELSE GRADUATED_DAYS[gradIndex + 1]
          IN [card EXCEPT !.lastReviewed = now,
                          !.easeFactor = ef,
                          !.interval = ivl,
                          !.repetitions = IF skip THEN rep + 2 ELSE rep + 1,
                          !.dueDate = now + ivl * SecPerDay]
      ELSE
          LET base == RoundDiv(card.interval * ef, 100)
              ivl == IF quality = 5 THEN RoundDiv(base * EasyBonus, 100) ELSE base
          IN [card EXCEPT !.lastReviewed = now,
                          !.easeFactor = ef,
                          !.interval = ivl,
                          !.repetitions = rep + 1,
                          !.dueDate = now + ivl * SecPerDay]

\* SM2.calculateNextReview of the loaded variant.
calculateNextReview(v, card, quality, now) ==
    IF v = "flat" THEN calculateNextReviewFlat(card, quality, now)
    ELSE calculateNextReviewGraduated(card, quality, now)

\* A policy that works on the card object it was given.
ArgumentAliased(v, card, quality, now) == calculateNextReview(v, card, quality, now)

\* The card object given to calculateNextReview, as the call leaves it: the
\* function works on `{ ...card }`, a copy, and the fields are strings and
\* numbers, so the object given is as it was.
ArgumentAfterReview(v, card, quality, now) == card

----------------------------------------------------------------------------
\* Cards and the card store.

Qualities == {0, 3, 5}           \* Again, Good, Easy: what the UI can send
CardIds == 1..NumCards

\* A front text is modelled by <<k, m>>: k is the collation key of its base
\* letters, m tells apart texts that differ in accents or case only.
Front(id) == <<(id + 1) \div 2, id % 2>>

\* CardDB.createCard
createCard(id, front, now) ==
    [id |-> id, front |-> front, interval |-> 0, easeFactor |-> DefaultEase,
     repetitions |-> 0, dueDate |-> now, lastReviewed |-> Null]

\* An empty array slot, and the value `undefined` read from a missing index.
Hole ==
    [id |-> 0, front |-> <<0, 0>>, interval |-> 0, easeFactor |-> 0,
     repetitions |-> 0, dueDate |-> 0, lastReviewed |-> Null]

\* CardDB.updateCard(id, updates): db.cards.update sets the given fields of
\* the stored object; `updates` always carries every field of a card.
updateCard(store, id, updates) == [store EXCEPT ![id] = updates]

----------------------------------------------------------------------------
\* Array operations of the controller.

\* array[idx] = v, growing the array (with empty slots) when idx is past it
ArraySet(array, idx, v) ==
    IF idx < Len(array) THEN [array EXCEPT ![idx + 1] = v]
    ELSE array \o [i \in 1..(idx - Len(array)) |-> Hole] \o <<v>>

\* array[idx]
ArrayGet(array, idx) == IF idx < Len(array) THEN array[idx + 1] ELSE Hole

\* array.splice(idx, 1): the array that is left
ArrayRemove(array, idx) ==
    IF idx < Len(array)
    THEN SubSeq(array, 1, idx) \o SubSeq(array, idx + 2, Len(array))
    ELSE array

\* array.splice(idx, 0, v)
ArrayInsert(array, idx, v) ==
    LET k == IF idx > Len(array) THEN Len(array) ELSE idx
    IN SubSeq(array, 1, k) \o <<v>> \o SubSeq(array, k + 1, Len(array))

\* studyQueue.filter(c => c.id !== id); filter passes over empty slots
FilterOutId(array, id) == SelectSeq(array, LAMBDA c : c # Hole /\ c.id # id)

\* handleReview, quality 0:
\*   studyQueue[currentCardIndex] = updated;
\*   const failedCard = studyQueue.splice(currentCardIndex, 1)[0];
\*   studyQueue.push(failedCard);
RequeueFailed(array, idx, updated) ==
    LET a1 == ArraySet(array, idx, updated)
    IN ArrayRemove(a1, idx) \o <<ArrayGet(a1, idx)>>

\* handleReview of the old controller in practice mode, quality 0:
\*   const failedCard = studyQueue.splice(currentCardIndex, 1)[0];
\*   studyQueue.push(failedCard);
MoveToEnd(array, idx) == ArrayRemove(array, idx) \o <<ArrayGet(array, idx)>>

\* undoLastAction: filter out the card, splice it back in at `index`
RestoreInQueue(array, card, index) ==
    ArrayInsert(FilterOutId(array, card.id), index, card)

----------------------------------------------------------------------------
\* Ordering of a session's cards.

\* A collation that runs from the end of the alphabet.
CollatorCompareReversed(a, b) ==
    IF a[1] > b[1] THEN -1 ELSE IF a[1] < b[1] THEN 1 ELSE 0

\* new Intl.Collator('pl', {sensitivity: 'base'}).compare(a, b)
CollatorCompare(a, b) ==
    IF a[1] < b[1] THEN -1 ELSE IF a[1] > b[1] THEN 1 ELSE 0

\* A comparator that looks at the due date first.
CompareFlatDueFirst(a, b) ==
    IF a.dueDate < b.dueDate THEN -1
    ELSE IF a.dueDate > b.dueDate THEN 1
    ELSE IF a.repetitions = 0 /\ b.repetitions # 0 THEN -1
    ELSE IF a.repetitions # 0 /\ b.repetitions = 0 THEN 1
    ELSE CollatorCompare(a.front, b.front)

\* the comparator of sortCardsForReview, src/js/sm2.js
CompareFlat(a, b) ==
    IF a.repetitions = 0 /\ b.repetitions # 0 THEN -1
    ELSE IF a.repetitions # 0 /\ b.repetitions = 0 THEN 1
    ELSE IF a.dueDate < b.dueDate THEN -1
    ELSE IF a.dueDate > b.dueDate THEN 1
    ELSE CollatorCompare(a.front, b.front)

\* The graduated comparator with the new-card test of the flat one.
CompareGraduatedNewFirst(a, b) ==
    LET aLearning == a.repetitions = 0
        bLearning == b.repetitions = 0
    IN IF aLearning /\ ~bLearning THEN -1
       ELSE IF ~aLearning /\ bLearning THEN 1
       ELSE IF a.dueDate < b.dueDate THEN -1
       ELSE IF a.dueDate > b.dueDate THEN 1
       ELSE CollatorCompare(a.front, b.front)

\* the comparator of sortCardsForReview, src/unnamed/part_001
CompareGraduated(a, b) ==
    LET aLearning == a.repetitions < MASTERY_THRESHOLD
        bLearning == b.repetitions < MASTERY_THRESHOLD
    IN IF aLearning /\ ~bLearning THEN -1
       ELSE IF ~aLearning /\ bLearning THEN 1
       ELSE IF a.dueDate < b.dueDate THEN -1
       ELSE IF a.dueDate > b.dueDate THEN 1
       ELSE CollatorCompare(a.front, b.front)

\* the comparator of startPractice (new controller): by dueDate only
CompareDue(a, b) == a.dueDate - b.dueDate

\* the order an index on dueDate yields: by dueDate, then by primary key
CompareDueId(a, b) ==
    IF a.dueDate # b.dueDate THEN a.dueDate - b.dueDate ELSE a.id - b.id

Compare(kind, a, b) ==
    CASE kind = "flat" -> CompareFlat(a, b)
      [] kind = "graduated" -> CompareGraduated(a, b)
      [] kind = "due" -> CompareDue(a, b)
      [] OTHER -> CompareDueId(a, b)

\* Array.prototype.sort is stable: x goes after every element not above it.
RECURSIVE InsertSorted(_, _, _)
InsertSorted(kind, sorted, x) ==
    IF sorted = <<>> THEN <<x>>
    ELSE IF Compare(kind, x, Head(sorted)) < 0 THEN <<x>> \o sorted
    ELSE <<Head(sorted)>> \o InsertSorted(kind, Tail(sorted), x)

RECURSIVE SortBy(_, _)
SortBy(kind, array) ==
    IF array = <<>> THEN <<>>
    ELSE InsertSorted(kind, SortBy(kind, SubSeq(array, 1, Len(array) - 1)),
                      array[Len(array)])

\* SM2.sortCardsForReview of the loaded variant
sortCardsForReview(v, cards) == SortBy(v, cards)

\* CardDB.getAllCards: toArray() in primary-key order
getAllCards(store) == [i \in 1..Len(store) |-> store[i]]

\* CardDB.getDueCards: where('dueDate').belowOrEqual(now), in index order
getDueCards(store, now) ==
    SortBy("index", SelectSeq(getAllCards(store), LAMBDA c : c.dueDate <= now))

\* shuffleArray: every permutation of the array can come out
Shuffles(array) ==
    {[i \in 1..Len(array) |-> array[p[i]]] : p \in Permutations(1..Len(array))}

----------------------------------------------------------------------------
\* The session controller.

NoQuality == Null

\* new Date(): the clock is read only here, so time is let pass at the reads.
\* The values a read can return: the last one, or one tick later.
Now == {t \in {clock, clock + TickSec} : t <= MaxTicks * TickSec}

\* showCard: ends the session when the cursor is past the queue, otherwise
\* shows the front of the current card (the answer side hidden again).  On an
\* empty slot `card.front` throws before the flip state is reset.
showCard(queue, idx, screen, flip) ==
    IF idx >= Len(queue) THEN [screen |-> "complete", flipped |-> flip]
    ELSE IF queue[idx + 1] = Hole THEN [screen |-> screen, flipped |-> flip]
    ELSE [screen |-> screen, flipped |-> FALSE]

\* History of one rating: the session when the rating was given, while its
\* review, and then its undo, run with no other handler step in between.  The
\* phases are begun, done, undoBegun, undone when the store saves the review,
\* and begun, failed, failedUndoBegun, failedUndone when it rejects it.
NoHist ==
    [phase |-> "none", quality |-> NoQuality, queue |-> <<>>, index |-> 0,
     reviewed |-> 0, stored |-> Hole, slot |-> <<>>]
Forget == hist' = NoHist

\* the entry handleReview saves for undo
UndoEntry(card, index) == [card |-> card, index |-> index]

\* An undo history that grows with every rating.
LastActionStack(slot, card, index) == Append(slot, UndoEntry(card, index))

\* handleReview's `lastAction = {...}`: the one slot holds the latest rating only
LastActionAfterReview(slot, card, index) == <<UndoEntry(card, index)>>

\* handleReview's cursor after a rating: a failed card is asked again, any
\* other rating moves on
CursorAfterReview(quality, idx) == IF quality = 0 THEN idx ELSE idx + 1

\* A count that goes up for Easy only.
CountEasyOnly(quality, count) == IF quality = 5 THEN count + 1 ELSE count

\* handleReview's count of reviewed cards after a rating
CountAfterReview(quality, count) == IF quality = 0 THEN count ELSE count + 1

\* A start that leaves the undo slot of the session before as it is.
StartSessionKeepsUndo(cards, queue, idx, count, slot) ==
    IF Len(cards) = 0
    THEN [queue |-> queue, index |-> idx, reviewed |-> count,
          lastAction |-> slot, started |-> FALSE]
    ELSE [queue |-> cards, index |-> 0, reviewed |-> 0,
          lastAction |-> slot, started |-> TRUE]

\* A start that assigns the loaded candidates to the queue before it looks
\* whether there are any.
StartSessionAssignsFirst(cards, queue, idx, count, slot) ==
    IF Len(cards) = 0
    THEN [queue |-> cards, index |-> idx, reviewed |-> count,
          lastAction |-> slot, started |-> FALSE]
    ELSE [queue |-> cards, index |-> 0, reviewed |-> 0,
          lastAction |-> <<>>, started |-> TRUE]

\* startStudy / startPractice after the candidates are loaded: nothing is
\* touched when there are none, otherwise the session starts afresh
StartSession(cards, queue, idx, count, slot) ==
    IF Len(cards) = 0
    THEN [queue |-> queue, index |-> idx, reviewed |-> count,
          lastAction |-> slot, started |-> FALSE]
    ELSE [queue |-> cards, index |-> 0, reviewed |-> 0,
          lastAction |-> <<>>, started |-> TRUE]

\* A controller that saves every rating, whatever the mode.
PersistsAlways == TRUE

\* A controller that saves no rating given in practice mode.
PersistsInStudyOnly == ~isPracticeMode

\* the new controller saves an undo entry and persists in both modes; the old
\* one does neither in practice mode
PersistsReviews == app = "new" \/ ~isPracticeMode

SessionInit ==
    /\ currentScreen = "home"
    /\ studyQueue = <<>>
    /\ currentCardIndex = 0
    /\ reviewedCount = 0
    /\ lastAction = <<>>
    /\ isPracticeMode = FALSE
    /\ flipped = FALSE
    /\ db \in {[i \in 1..n |-> createCard(i, Front(i), 0)] : n \in 0..NumCards}
    /\ pending = <<>>
    /\ clock = 0
    /\ nStarts = 0
    /\ nReviews = 0
    /\ toast = ""
    /\ hist = NoHist

PolicyIdle ==
    /\ pcard = createCard(1, Front(1), 0)
    /\ pprev = createCard(1, Front(1), 0)
    /\ pq = NoQuality
    /\ pqs = <<>>
    /\ fromNew = TRUE
    /\ parg = pcard
    /\ phint = <<>>

SortIdle ==
    /\ sortIn = <<>>
    /\ sortOut = <<>>

Init ==
    /\ variant \in {"flat", "graduated"}
    /\ app \in {"new", "old"}
    /\ SessionInit
    /\ PolicyIdle
    /\ SortIdle

\* startStudy / startPractice up to `await CardDB.get...Cards()`
StartBegin(practice) ==
    /\ currentScreen = "home"
    /\ nStarts < MaxStarts
    /\ Len(pending) < MaxInFlight
    /\ isPracticeMode' = practice
    /\ \E now \in Now :
         /\ clock' = IF practice THEN clock ELSE now
         /\ pending' = Append(pending, [op |-> IF practice THEN "startPractice"
                                               ELSE "startStudy",
                                        card |-> Hole, index |-> 0,
                                        quality |-> NoQuality, updated |-> Hole,
                                        now |-> now])
    /\ nStarts' = nStarts + 1
    /\ UNCHANGED <<variant, app, currentScreen, studyQueue, currentCardIndex,
                   reviewedCount, lastAction, flipped, db, nReviews, toast,
                   policyVars>>
    /\ Forget

\* the candidate orders of the session a start task loads: due cards sorted
\* for review (startStudy), or all cards by due date (startPractice, new
\* controller) or shuffled (startPractice, old controller)
Candidates(task) ==
    IF task.op = "startStudy"
    THEN {sortCardsForReview(variant, getDueCards(db, task.now))}
    ELSE IF app = "new" THEN {SortBy("due", getAllCards(db))}
    ELSE Shuffles(getAllCards(db))

\* startStudy / startPractice after the await
StartDone ==
    /\ pending # <<>>
    /\ Head(pending).op \in {"startStudy", "startPractice"}
    /\ pending' = Tail(pending)
    /\ \E cards \in Candidates(Head(pending)) :
         LET s == StartSession(cards, studyQueue, currentCardIndex,
                               reviewedCount, lastAction)
         IN /\ studyQueue' = s.queue
            /\ currentCardIndex' = s.index
            /\ reviewedCount' = s.reviewed
            /\ lastAction' = s.lastAction
            /\ IF s.started
               THEN /\ currentScreen' =
                         showCard(s.queue, s.index, "study", flipped).screen
                    /\ flipped' = showCard(s.queue, s.index, "study", flipped).flipped
                    /\ UNCHANGED toast
               ELSE /\ toast' = IF Head(pending).op = "startPractice"
                                  THEN "No cards to practice!"
                                  ELSE "No cards due for review!"
                    /\ UNCHANGED <<currentScreen, flipped>>
    /\ UNCHANGED <<variant, app, isPracticeMode, db, clock, nStarts, nReviews,
                   policyVars>>
    /\ Forget

\* revealCard, by click, Space or Enter on the study screen
RevealCard ==
    /\ currentScreen = "study"
    /\ ~flipped
    /\ flipped' = TRUE
    /\ UNCHANGED toast
    /\ UNCHANGED <<variant, app, currentScreen, studyQueue, currentCardIndex,
                   reviewedCount, lastAction, isPracticeMode, db, pending,
                   clock, nStarts, nReviews, policyVars>>
    /\ Forget

\* handleReview(quality) up to `await CardDB.updateCard(...)`.  The rating
\* keys, buttons and swipes act on the study screen while the answer side is
\* shown.  In the old controller's practice mode the handler has no await and
\* runs to its end.
ReviewBegin(quality) ==
    /\ currentScreen = "study"
    /\ flipped
    /\ Len(pending) < MaxInFlight
    /\ nReviews < MaxReviews
    /\ nReviews' = nReviews + 1
    /\ LET card == ArrayGet(studyQueue, currentCardIndex) IN
       IF PersistsReviews
       THEN /\ lastAction' = LastActionAfterReview(lastAction, card, currentCardIndex)
            /\ hist' = IF pending = <<>> /\ card # Hole
                       THEN [phase |-> "begun", quality |-> quality,
                             queue |-> studyQueue, index |-> currentCardIndex,
                             reviewed |-> reviewedCount, stored |-> db[card.id],
                             slot |-> lastAction]
                       ELSE NoHist
            /\ \E now \in Now :
                 /\ clock' = now
                 /\ pending' =
                      IF card = Hole THEN pending      \* card.id throws
                      ELSE Append(pending,
                             [op |-> "review", card |-> card,
                              index |-> currentCardIndex, quality |-> quality,
                              updated |-> calculateNextReview(variant, card, quality, now),
                              now |-> now])
                 /\ studyQueue' =
                      IF card = Hole THEN studyQueue
                      ELSE ArraySet(studyQueue, currentCardIndex,
                             ArgumentAfterReview(variant, card, quality, now))
            /\ UNCHANGED <<currentScreen, currentCardIndex, reviewedCount, flipped>>
       ELSE LET queue == IF quality = 0 THEN MoveToEnd(studyQueue, currentCardIndex)
                         ELSE studyQueue
                idx == CursorAfterReview(quality, currentCardIndex)
            IN /\ studyQueue' = queue
               /\ currentCardIndex' = idx
               /\ reviewedCount' = CountAfterReview(quality, reviewedCount)
               /\ Forget
               /\ currentScreen' = showCard(queue, idx, currentScreen, flipped).screen
               /\ flipped' = showCard(queue, idx, currentScreen, flipped).flipped
               /\ UNCHANGED <<lastAction, pending, clock>>
    /\ UNCHANGED <<variant, app, isPracticeMode, db, nStarts, toast, policyVars>>

\* handleReview after the await, the store having saved the card
ReviewDone ==
    /\ pending # <<>>
    /\ Head(pending).op = "review"
    /\ LET t == Head(pending)
           queue == IF t.quality = 0
                    THEN RequeueFailed(studyQueue, currentCardIndex, t.updated)
                    ELSE studyQueue
           idx == CursorAfterReview(t.quality, currentCardIndex)
       IN /\ db' = updateCard(db, t.card.id, t.updated)
          /\ studyQueue' = queue
          /\ currentCardIndex' = idx
          /\ reviewedCount' = CountAfterReview(t.quality, reviewedCount)
          /\ currentScreen' = showCard(queue, idx, currentScreen, flipped).screen
          /\ flipped' = showCard(queue, idx, currentScreen, flipped).flipped
          /\ UNCHANGED toast
    /\ pending' = Tail(pending)
    /\ hist' = IF hist.phase = "begun" THEN [hist EXCEPT !.phase = "done"]
               ELSE NoHist
    /\ UNCHANGED <<variant, app, lastAction, isPracticeMode, clock, nStarts,
                   nReviews, policyVars>>

\* A rejected write that is swallowed, the handler moving on to the next card.
ReviewFailedMovesOn ==
    /\ pending # <<>>
    /\ Head(pending).op = "review"
    /\ pending' = Tail(pending)
    /\ currentCardIndex' = currentCardIndex + 1
    /\ UNCHANGED <<variant, app, currentScreen, studyQueue, reviewedCount,
                   lastAction, isPracticeMode, flipped, db, clock, nStarts,
                   nReviews, toast, policyVars>>
    /\ Forget

\* handleReview after the await, the store having rejected the write: the
\* rejection leaves the async function and the rest of it does not run
ReviewFailed ==
    /\ pending # <<>>
    /\ Head(pending).op = "review"
    /\ pending' = Tail(pending)
    /\ UNCHANGED toast
    /\ UNCHANGED <<variant, app, currentScreen, studyQueue, currentCardIndex,
                   reviewedCount, lastAction, isPracticeMode, flipped, db,
                   clock, nStarts, nReviews, policyVars>>
    /\ hist' = IF hist.phase = "begun" THEN [hist EXCEPT !.phase = "failed"]
               ELSE NoHist

\* undoLastAction up to `await CardDB.updateCard(card.id, card)`, by the undo
\* button or Ctrl+Z on the study screen
UndoBegin ==
    /\ currentScreen = "study"
    /\ Len(pending) < MaxInFlight
    /\ IF lastAction = <<>> \/ (app = "old" /\ isPracticeMode)
       THEN UNCHANGED <<pending, toast>>
       ELSE /\ pending' = Append(pending,
                 [op |-> "undo", card |-> lastAction[1].card,
                  index |-> lastAction[1].index, quality |-> NoQuality,
                  updated |-> Hole, now |-> 0])
            /\ UNCHANGED toast
    /\ UNCHANGED <<variant, app, currentScreen, studyQueue, currentCardIndex,
                   reviewedCount, lastAction, isPracticeMode, flipped, db,
                   clock, nStarts, nReviews, policyVars>>
    /\ hist' = IF hist.phase = "done" /\ pending' # pending
               THEN [hist EXCEPT !.phase = "undoBegun"]
               ELSE IF hist.phase = "failed" /\ pending' # pending
               THEN [hist EXCEPT !.phase = "failedUndoBegun"]
               ELSE NoHist

\* undoLastAction after the await, the store having restored the card.  When
\* lastAction was cleared meanwhile, `lastAction.wasInQueue` throws and the
\* rest of the function does not run.
UndoDone ==
    /\ pending # <<>>
    /\ Head(pending).op = "undo"
    /\ Head(pending).card # Hole
    /\ LET t == Head(pending)
           queue == RestoreInQueue(studyQueue, t.card, t.index)
       IN /\ db' = updateCard(db, t.card.id, t.card)
          /\ IF lastAction = <<>>
             THEN /\ UNCHANGED toast
                  /\ UNCHANGED <<studyQueue, currentCardIndex, reviewedCount,
                                 lastAction, currentScreen, flipped>>
             ELSE /\ studyQueue' = queue
                  /\ currentCardIndex' = t.index
                  /\ reviewedCount' = IF reviewedCount > 0 THEN reviewedCount - 1
                                      ELSE reviewedCount
                  /\ lastAction' = <<>>
                  /\ currentScreen' =
                       showCard(queue, t.index, currentScreen, flipped).screen
                  /\ flipped' = showCard(queue, t.index, currentScreen, flipped).flipped
                  /\ toast' = IF ArrayGet(queue, t.index) = Hole /\ t.index < Len(queue)
                              THEN toast      \* showCard threw
                              ELSE "Undone"
    /\ pending' = Tail(pending)
    /\ hist' = IF hist.phase = "undoBegun" THEN [hist EXCEPT !.phase = "undone"]
               ELSE IF hist.phase = "failedUndoBegun"
               THEN [hist EXCEPT !.phase = "failedUndone"]
               ELSE NoHist
    /\ UNCHANGED <<variant, app, isPracticeMode, clock, nStarts, nReviews,
                   policyVars>>

\* undoLastAction after the await, the store having rejected the write
UndoFailed ==
    /\ pending # <<>>
    /\ Head(pending).op = "undo"
    /\ pending' = Tail(pending)
    /\ UNCHANGED toast
    /\ UNCHANGED <<variant, app, currentScreen, studyQueue, currentCardIndex,
                   reviewedCount, lastAction, isPracticeMode, flipped, db,
                   clock, nStarts, nReviews, policyVars>>
    /\ Forget

\* the end-study button, confirmed: endStudy()
EndStudy ==
    /\ currentScreen = "study"
    /\ currentScreen' = "complete"
    /\ UNCHANGED toast
    /\ UNCHANGED <<variant, app, studyQueue, currentCardIndex, reviewedCount,
                   lastAction, isPracticeMode, flipped, db, pending, clock,
                   nStarts, nReviews, policyVars>>
    /\ Forget

\* the logo button or the back-home button: showScreen('home')
GoHome ==
    /\ currentScreen \in {"study", "complete"}
    /\ currentScreen' = "home"
    /\ UNCHANGED toast
    /\ UNCHANGED <<variant, app, studyQueue, currentCardIndex, reviewedCount,
                   lastAction, isPracticeMode, flipped, db, pending, clock,
                   nStarts, nReviews, policyVars>>
    /\ Forget

Next ==
    \/ \E practice \in BOOLEAN : StartBegin(practice)
    \/ StartDone
    \/ RevealCard
    \/ \E quality \in Qualities : ReviewBegin(quality)
    \/ ReviewDone
    \/ ReviewFailed
    \/ UndoBegin
    \/ UndoDone
    \/ UndoFailed
    \/ EndStudy
    \/ GoHome

Spec == Init /\ [][Next]_vars

\* The session with review buttons that carry any rating of the policy's
\* range: the click handler passes parseInt(btn.dataset.rating, 10) on to
\* handleReview as it is.
ButtonRatings == 0..5

RatingNext ==
    \/ \E practice \in BOOLEAN : StartBegin(practice)
    \/ StartDone
    \/ RevealCard
    \/ \E quality \in ButtonRatings : ReviewBegin(quality)
    \/ ReviewDone
    \/ ReviewFailed
    \/ UndoBegin
    \/ UndoDone
    \/ UndoFailed
    \/ EndStudy
    \/ GoHome

RatingSpec == Init /\ [][RatingNext]_vars

----------------------------------------------------------------------------
\* Policy runs: calculateNextReview applied, review after review, to one card.
\* The card given at first is a fresh one (createCard) or one restored from a
\* backup (CardDB.importData stores the cards of the file as they are).

PolicyQualities == 0..5          \* "Rating from 0-5"
PolicyIntervals == {0, 1, 6, 15}
PolicyEases == {MinEase, 136, 144, 222, DefaultEase, 270}

ImportedCards ==
    [id : {1}, front : {Front(1)}, interval : PolicyIntervals,
     easeFactor : PolicyEases, repetitions : 0..MaxReps,
     dueDate : {0}, lastReviewed : {Null, 0}]

PolicyInit ==
    /\ variant \in {"flat", "graduated"}
    /\ app = "new"
    /\ SessionInit
    /\ \/ /\ fromNew = TRUE
          /\ pcard = createCard(1, Front(1), 0)
       \/ /\ fromNew = FALSE
          /\ pcard \in ImportedCards
    /\ pprev = pcard
    /\ pq = NoQuality
    /\ pqs = <<>>
    /\ parg = pcard
    /\ phint = <<>>
    /\ SortIdle

\* one call of SM2.calculateNextReview(pcard, quality)
PolicyReview(quality) ==
    /\ nReviews < MaxCalls
    /\ nReviews' = nReviews + 1
    /\ \E now \in Now :
         /\ clock' = now
         /\ pcard' = calculateNextReview(variant, pcard, quality, now)
         /\ parg' = ArgumentAfterReview(variant, pcard, quality, now)
    /\ pprev' = pcard
    /\ pq' = quality
    /\ pqs' = Append(pqs, quality)
    /\ UNCHANGED <<variant, app, currentScreen, studyQueue, currentCardIndex,
                   reviewedCount, lastAction, isPracticeMode, flipped, db,
                   pending, nStarts, toast, hist, fromNew, phint, sortIn,
                   sortOut>>

PolicyNext == \E quality \in PolicyQualities : PolicyReview(quality)

PolicySpec == PolicyInit /\ [][PolicyNext]_vars

----------------------------------------------------------------------------
\* Properties of the review policy, checked under PolicySpec.

\* C1: a review rated Fail (quality 0), in the flat and in the graduated
\* variant alike, gives a card with repetitions 0, interval 0, a due date 60
\* seconds after the time of the review, and the ease factor it had before.
C1_FailResetsCard ==
    pq = 0 =>
        /\ pcard.repetitions = 0
        /\ pcard.interval = 0
        /\ pcard.dueDate = clock + FailDelaySec
        /\ pcard.easeFactor = pprev.easeFactor

\* a card well into its schedule, with an ease factor of its own, has failed
C1_Witness ==
    /\ pq = 0
    /\ variant = "graduated"
    /\ pprev.repetitions >= MASTERY_THRESHOLD
    /\ pprev.interval > 0
    /\ pprev.easeFactor = 222
    /\ pcard.repetitions = 0
    /\ pcard.easeFactor = 222
    /\ clock > 0

\* C2: a card whose ease factor is at least 1.3, rated Good (3) or Easy (5),
\* has an ease factor of at least 1.3 afterwards, in both variants; so Good
\* after Good from 1.3 never goes below 1.3.
C2_EaseFloor ==
    (pq \in {3, 5} /\ pprev.easeFactor >= MinEase) => pcard.easeFactor >= MinEase

\* Good rated again and again on a card at the floor, which stays there
C2_Witness ==
    /\ pq = 3
    /\ nReviews = MaxCalls
    /\ pprev.easeFactor = MinEase
    /\ pcard.easeFactor = MinEase
    /\ pcard.repetitions >= 2

\* C11 as stated: under the flat schedule a new card rated Good three times
\* has repetitions 1 and interval 1, then repetitions 2 and interval 6 with an
\* ease factor of about 2.6, then repetitions 3 and interval 16.
C11_ThreeGoodsAsStated ==
    (fromNew /\ variant = "flat") =>
        /\ pqs = <<3>> => (pcard.repetitions = 1 /\ pcard.interval = 1)
        /\ pqs = <<3, 3>> =>
             /\ pcard.repetitions = 2 /\ pcard.interval = 6
             /\ pcard.easeFactor \in 255..265
        /\ pqs = <<3, 3, 3>> => (pcard.repetitions = 3 /\ pcard.interval = 16)

\* C11: under the flat schedule a new card rated Good three times has
\* repetitions 1 and interval 1, then repetitions 2 and interval 6, then
\* repetitions 3 and interval 12 = round(6 x 2.08), the ease factor being 2.36,
\* 2.22 and 2.08 after the first, second and third rating.
C11_ThreeGoods ==
    (fromNew /\ variant = "flat") =>
        /\ pqs = <<3>> =>
             /\ pcard.repetitions = 1 /\ pcard.interval = 1
             /\ pcard.easeFactor = 236
        /\ pqs = <<3, 3>> =>
             /\ pcard.repetitions = 2 /\ pcard.interval = 6
             /\ pcard.easeFactor = 222
        /\ pqs = <<3, 3, 3>> =>
             /\ pcard.repetitions = 3 /\ pcard.interval = 12
             /\ pcard.easeFactor = 208

\* the third Good in a row on a new card, flat schedule
C11_Witness ==
    /\ fromNew
    /\ variant = "flat"
    /\ pqs = <<3, 3, 3>>
    /\ pprev.interval = 6
    /\ pcard.interval = 12

\* C12 as stated: a review rated Good does not lower the ease factor: it adds
\* about 0.02.
C12_GoodKeepsEaseAsStated ==
    pq = 3 =>
        /\ pcard.easeFactor >= pprev.easeFactor
        /\ pcard.easeFactor - pprev.easeFactor <= 5

\* C12: a review rated Good lowers the ease factor by 0.14, though not below
\* 1.3; a review rated Easy raises it by 0.10.
C12_GoodLowersEase ==
    /\ pq = 3 => pcard.easeFactor = Max(MinEase, pprev.easeFactor - 14)
    /\ pq = 5 => pcard.easeFactor = Max(MinEase, pprev.easeFactor + 10)

\* Good on a card at the default ease factor
C12_Witness ==
    /\ pq = 3
    /\ pprev.easeFactor = DefaultEase
    /\ pcard.easeFactor = 236

C18_ScheduleFieldsValid ==
    fromNew =>
        /\ pcard.repetitions \in Nat
        /\ pcard.interval \in Nat
        /\ pcard.dueDate # Null
        /\ pcard.dueDate \in Nat

\* a card from the defaults that was rated Good, Easy and then Fail
C18_Witness ==
    /\ fromNew
    /\ pqs = <<3, 5, 0>>
    /\ pprev.interval > 0
    /\ pcard.interval = 0
    /\ pcard.dueDate = clock + FailDelaySec

\* C22: from every state a new card can get to, in both variants, a review
\* rated Easy gives a due date strictly later than a review rated Good at the
\* same time would have given.
C22_EasyLaterThanGood ==
    (fromNew /\ pq = 5) =>
        pcard.dueDate > calculateNextReview(variant, pprev, 3, clock).dueDate

\* C23: in the graduated variant a review rated Good raises the repetition
\* count by 1; at repetitions 0 it gives interval 0 and a due time 10 minutes
\* ahead, at repetitions 1, 2, 3 and 4 an interval of 1, 3, 7 and 14 days, at
\* repetitions 5 and more the interval round(interval x the updated ease
\* factor); the due time is the interval ahead.
C23_GraduatedGoodSteps ==
    (variant = "graduated" /\ pq = 3) =>
        /\ pcard.repetitions = pprev.repetitions + 1
        /\ pprev.repetitions = 0 =>
              (pcard.interval = 0 /\ pcard.dueDate = clock + 10 * SecPerMin)
        /\ pprev.repetitions = 1 => pcard.interval = 1
        /\ pprev.repetitions = 2 => pcard.interval = 3
        /\ pprev.repetitions = 3 => pcard.interval = 7
        /\ pprev.repetitions = 4 => pcard.interval = 14
        /\ pprev.repetitions >= 5 =>
              pcard.interval = RoundDiv(pprev.interval * pcard.easeFactor, 100)
        /\ pprev.repetitions >= 1 =>
              pcard.dueDate = clock + pcard.interval * SecPerDay

\* Good at the last day step and Good again on the card, then mature
C23_Witness ==
    /\ variant = "graduated"
    /\ pqs = <<3, 3, 3>>
    /\ pprev.repetitions = 5
    /\ pprev.interval = 14
    /\ pcard.repetitions = 6
    /\ pcard.interval = RoundDiv(14 * pcard.easeFactor, 100)
    /\ pcard.interval > 14

\* C24: a review rated 3 or more raises the repetition count by 1 or by 2, by
\* 2 exactly when it is rated Easy in the graduated variant at repetitions 0
\* to 3, where the interval is that of the step after the card's own (1, 3, 7,
\* 14 days); Easy at repetitions 4 of the graduated variant gives
\* round(14 x 1.3) days, and Easy in the mature phase of either variant gives
\* round(round(interval x updated ease) x 1.3).
C24_EasySkipsOrMultiplies ==
    pq >= 3 =>
        LET skip == variant = "graduated" /\ pq = 5 /\ pprev.repetitions <= 3
            mature == IF variant = "flat" THEN pprev.repetitions >= 2
                      ELSE pprev.repetitions >= 5
        IN /\ pcard.repetitions = pprev.repetitions + (IF skip THEN 2 ELSE 1)
           /\ skip => pcard.interval = <<1, 3, 7, 14>>[pprev.repetitions + 1]
           /\ (variant = "graduated" /\ pq = 5 /\ pprev.repetitions = 4) =>
                 pcard.interval = RoundDiv(14 * 130, 100)
           /\ (pq = 5 /\ mature) =>
                 pcard.interval =
                    RoundDiv(RoundDiv(pprev.interval * pcard.easeFactor, 100) * 130, 100)

\* Easy at the last step that can be skipped, then Easy on the mature card
C24_Witness ==
    /\ variant = "graduated"
    /\ pqs = <<5, 5, 5>>
    /\ pprev.repetitions = 5
    /\ pprev.interval = 14
    /\ pcard.repetitions = 6
    /\ pcard.interval > 18

\* C35: in the graduated variant, at repetitions 0 to 3, a review rated Easy
\* gives the interval and the repetition count that two reviews rated Good,
\* one after the other, give from the same card.
C35_EasyIsTwoGoods ==
    (variant = "graduated" /\ pq = 5 /\ pprev.repetitions <= 3) =>
        LET good == calculateNextReview(variant, pprev, 3, clock)
            goodGood == calculateNextReview(variant, good, 3, clock)
        IN /\ pcard.interval = goodGood.interval
           /\ pcard.repetitions = goodGood.repetitions

\* a new card rated Easy twice: the second skips from repetitions 2 to 4
C35_Witness ==
    /\ variant = "graduated"
    /\ fromNew
    /\ pqs = <<5, 5>>
    /\ pprev.repetitions = 2
    /\ pcard.repetitions = 4
    /\ pcard.interval = 7

\* C36: a mature card (repetitions 2 or more in the flat variant, 5 or more in
\* the graduated one) that descends from a new card has an interval of at
\* least 6 days, and a review rated Good or Easy gives it an interval strictly
\* longer than the one it had; so does such a review of any mature card with
\* an interval of 2 days or more.
C36_MatureIntervalGrows ==
    LET mature(c) == IF variant = "flat" THEN c.repetitions >= 2
                     ELSE c.repetitions >= MASTERY_THRESHOLD
    IN /\ (fromNew /\ mature(pcard)) => pcard.interval >= 6
       /\ (fromNew /\ pq \in {3, 5} /\ mature(pprev)) =>
             pcard.interval > pprev.interval
       /\ (pq \in {3, 5} /\ mature(pprev) /\ pprev.interval >= 2) =>
             pcard.interval > pprev.interval

\* graduated: a new card rated Easy three times is mature with 18 days, and
\* Good then gives it more, at an ease factor that went down
C36_Witness ==
    /\ variant = "graduated"
    /\ fromNew
    /\ pqs = <<5, 5, 5, 3>>
    /\ pprev.repetitions = MASTERY_THRESHOLD
    /\ pprev.interval = 18
    /\ pcard.easeFactor < pprev.easeFactor
    /\ pcard.interval > 18

\* C37: after a review of any quality, in both variants, lastReviewed is the
\* time of the review and the due date is later; after a failed review it is
\* one minute later; after a successful review of a card that descends from
\* a new card it is the 10 minutes of the learning step later when Good was
\* rated at repetitions 0 in the graduated variant, and a day or more
\* otherwise.
C37_DueAfterReviewed ==
    pq # NoQuality =>
        /\ pcard.lastReviewed = clock
        /\ pq < 3 => pcard.dueDate = pcard.lastReviewed + FailDelaySec
        /\ fromNew =>
              /\ pcard.dueDate > pcard.lastReviewed
              /\ pq >= 3 =>
                    IF variant = "graduated" /\ pprev.repetitions = 0 /\ pq # 5
                    THEN pcard.dueDate = pcard.lastReviewed + 10 * SecPerMin
                    ELSE pcard.dueDate >= pcard.lastReviewed + SecPerDay

\* graduated: a card that had failed a minute before is rated Good and is due
\* in 10 minutes
C37_Witness ==
    /\ variant = "graduated"
    /\ fromNew
    /\ pqs = <<0, 3>>
    /\ pprev.lastReviewed = 0
    /\ clock = TickSec
    /\ pcard.lastReviewed = clock
    /\ pcard.dueDate = clock + 10 * SecPerMin

----------------------------------------------------------------------------
\* Hint runs: getIntervalHint applied, call after call, to the card a session
\* shows (showCard passes studyQueue[currentCardIndex]).

\* `${n} ${unit}s`, or `1 ${unit}` for n = 1
Plural(n, unit) ==
    IF n = 1 THEN "1 " \o unit ELSE ToString(n) \o " " \o unit \o "s"

\* the text of Math.round(interval / 365 * 10) / 10, given in tenths
Tenths(t) ==
    IF t % 10 = 0 THEN ToString(t \div 10)
    ELSE ToString(t \div 10) \o "." \o ToString(t % 10)

\* Day, month and year texts with the months cut down, not rounded.
DaysHintMonthsCut(interval) ==
    IF interval = 1 THEN "1 day"
    ELSE IF interval < 30 THEN ToString(interval) \o " days"
    ELSE IF interval < 365 THEN Plural(interval \div 30, "month")
    ELSE LET years == RoundDiv(interval * 10, 365)
         IN IF years = 10 THEN "1 year" ELSE Tenths(years) \o " years"

\* the day, month and year texts both variants share
DaysHint(interval) ==
    IF interval = 1 THEN "1 day"
    ELSE IF interval < 30 THEN ToString(interval) \o " days"
    ELSE IF interval < 365 THEN Plural(RoundDiv(interval, 30), "month")
    ELSE LET years == RoundDiv(interval * 10, 365)
         IN IF years = 10 THEN "1 year" ELSE Tenths(years) \o " years"

\* src/js/sm2.js
getIntervalHintFlat(card, quality, now) ==
    LET simulated == calculateNextReviewFlat(card, quality, now)
    IN IF quality < 3 THEN "<1min" ELSE DaysHint(simulated.interval)

\* src/unnamed/part_001
getIntervalHintGraduated(card, quality, now) ==
    LET simulated == calculateNextReviewGraduated(card, quality, now)
        minutes == RoundDiv(simulated.dueDate - now, SecPerMin)
    IN IF quality < 3 THEN "1 min"
       ELSE IF simulated.interval = 0
            THEN IF minutes < 60 THEN ToString(minutes) \o " min"
                 ELSE ToString(RoundDiv(minutes, 60)) \o " hr"
       ELSE DaysHint(simulated.interval)

\* SM2.getIntervalHint of the loaded variant
getIntervalHint(v, card, quality, now) ==
    IF v = "flat" THEN getIntervalHintFlat(card, quality, now)
    ELSE getIntervalHintGraduated(card, quality, now)

\* A preview that runs the review on the card itself.
HintArgumentReviewed(v, card, quality, now) == calculateNextReview(v, card, quality, now)

\* The card object given to getIntervalHint, as the call leaves it: the
\* function hands it to calculateNextReview and does nothing else with it.
HintArgumentAfter(v, card, quality, now) == ArgumentAfterReview(v, card, quality, now)

\* Long intervals of restored cards: their next intervals lie on both sides of
\* the month and year thresholds.
HintIntervals == {22, 23, 280, 281, 400}

\* Restored mature cards with long intervals.
HintCards ==
    [id : {1}, front : {Front(1)}, interval : HintIntervals,
     easeFactor : {MinEase, DefaultEase}, repetitions : {MaxReps},
     dueDate : {0}, lastReviewed : {0}]

HintInit ==
    /\ variant \in {"flat", "graduated"}
    /\ app = "new"
    /\ pcard \in ImportedCards \cup HintCards \cup {createCard(1, Front(1), 0)}
    /\ fromNew = (pcard = createCard(1, Front(1), 0))
    /\ pprev = pcard
    /\ parg = pcard
    /\ pq = NoQuality
    /\ pqs = <<>>
    /\ phint = <<>>
    /\ SortIdle
    /\ currentScreen = "study"
    /\ studyQueue = <<pcard>>
    /\ db = <<pcard>>
    /\ currentCardIndex = 0
    /\ reviewedCount = 0
    /\ lastAction = <<>>
    /\ isPracticeMode = FALSE
    /\ flipped = FALSE
    /\ pending = <<>>
    /\ clock = 0
    /\ nStarts = 0
    /\ nReviews = 0
    /\ toast = ""
    /\ hist = NoHist

\* one call of SM2.getIntervalHint(studyQueue[currentCardIndex], quality)
HintCall(quality) ==
    /\ phint # <<>> => phint[1].n < MaxCalls
    /\ \E now \in Now :
         /\ clock' = now
         /\ pcard' = HintArgumentAfter(variant, pcard, quality, now)
         /\ phint' = <<[card |-> pcard, quality |-> quality,
                        hint |-> getIntervalHint(variant, pcard, quality, now),
                        n |-> IF phint = <<>> THEN 1 ELSE phint[1].n + 1]>>
    /\ studyQueue' = ArraySet(studyQueue, currentCardIndex, pcard')
    /\ UNCHANGED <<variant, app, currentScreen, currentCardIndex, reviewedCount,
                   lastAction, isPracticeMode, flipped, db, pending, nStarts,
                   nReviews, toast, hist, pprev, pq, pqs, fromNew, parg,
                   sortIn, sortOut>>

HintNext == \E quality \in PolicyQualities : HintCall(quality)

HintSpec == HintInit /\ [][HintNext]_vars

C38_HintThresholds ==
    phint # <<>> =>
        LET h == phint[1]
            sim == calculateNextReview(variant, h.card, h.quality, clock)
            minutes == RoundDiv(sim.dueDate - clock, SecPerMin)
            months == RoundDiv(sim.interval, 30)
            tenths == RoundDiv(sim.interval * 10, 365)
            subDay == variant = "graduated" /\ sim.interval = 0
        IN /\ h.quality < 3 =>
                 h.hint = IF variant = "flat" THEN "<1min" ELSE "1 min"
           /\ (h.quality >= 3 /\ subDay /\ minutes < 60) =>
                 h.hint = ToString(minutes) \o " min"
           /\ (h.quality >= 3 /\ subDay /\ minutes >= 60) =>
                 h.hint = ToString(RoundDiv(minutes, 60)) \o " hr"
           /\ (h.quality >= 3 /\ ~subDay /\ sim.interval < 30) =>
                 h.hint = IF sim.interval = 1 THEN "1 day"
                          ELSE ToString(sim.interval) \o " days"
           /\ (h.quality >= 3 /\ sim.interval >= 30 /\ sim.interval < 365) =>
                 h.hint = IF months = 1 THEN "1 month"
                          ELSE ToString(months) \o " months"
           /\ (h.quality >= 3 /\ sim.interval >= 365) =>
                 h.hint = IF tenths = 10 THEN "1 year"
                          ELSE IF tenths % 10 = 0
                               THEN ToString(tenths \div 10) \o " years"
                               ELSE ToString(tenths \div 10) \o "."
                                    \o ToString(tenths % 10) \o " years"

\* flat: Good on a restored card with an interval of 400 days and ease 2.5
\* simulates round(400 * 2.36) = 944 days, shown as "2.6 years"
C38_Witness ==
    /\ variant = "flat"
    /\ phint # <<>>
    /\ phint[1].quality = 3
    /\ phint[1].card.interval = 400
    /\ phint[1].card.easeFactor = DefaultEase
    /\ phint[1].hint = "2.6 years"

----------------------------------------------------------------------------
\* Sort runs: sortCardsForReview applied to an array of cards.

MaxSort == 3
SortRepetitions == {0, 1, 3, MASTERY_THRESHOLD}
SortDueDates == {0, TickSec}

\* the arrays given: up to MaxSort cards in any order, each anywhere in its
\* schedule and due now or later
SortInputs ==
    UNION {UNION {Shuffles([i \in 1..n |->
                     [createCard(i, Front(i), 0) EXCEPT
                         !.repetitions = reps[i], !.dueDate = due[i]]]) :
                  reps \in [1..n -> SortRepetitions], due \in [1..n -> SortDueDates]} :
           n \in 1..MaxSort}

SortInit ==
    /\ variant \in {"flat", "graduated"}
    /\ app = "new"
    /\ SessionInit
    /\ PolicyIdle
    /\ db = <<>>
    /\ sortIn \in SortInputs
    /\ sortOut = <<>>

\* one call of SM2.sortCardsForReview(sortIn)
SortCards ==
    /\ sortOut = <<>>
    /\ sortOut' = sortCardsForReview(variant, sortIn)
    /\ UNCHANGED <<variant, app, sessionVars, pcard, pprev, pq, pqs, fromNew,
                   parg, phint, sortIn>>

SortNext == SortCards

SortSpec == SortInit /\ [][SortNext]_vars

\* the repetition count from which a card is mature: 2 in the flat schedule
\* (the interval is then interval x ease), MASTERY_THRESHOLD in the graduated
MatureFrom == IF variant = "flat" THEN 2 ELSE MASTERY_THRESHOLD

\* C13: in the array sortCardsForReview returns, no mature card comes before
\* a card with repetitions 0, whatever the due dates, in both variants.
C13_NewBeforeMature ==
    \A i, j \in 1..Len(sortOut) :
        (sortOut[i].repetitions >= MatureFrom /\ sortOut[j].repetitions = 0) => j < i

\* a new card due later stands before a mature card due earlier
C13_Witness ==
    /\ Len(sortOut) >= 2
    /\ sortOut[1].repetitions = 0
    /\ sortOut[2].repetitions >= MatureFrom
    /\ sortOut[1].dueDate > sortOut[2].dueDate

\* C14 as stated: in the array sortCardsForReview returns, no mature card
\* comes before a card with fewer repetitions than the mature threshold,
\* whatever the due dates, in both variants.
C14_LearningBeforeMatureAsStated ==
    \A i, j \in 1..Len(sortOut) :
        (sortOut[i].repetitions >= MatureFrom /\ sortOut[j].repetitions < MatureFrom)
            => j < i

\* C14: in the graduated variant no card with MASTERY_THRESHOLD repetitions or
\* more comes before a card with fewer, whatever the due dates; in the flat
\* variant no card with repetitions comes before a card with none, and the
\* cards with repetitions stand in the order of their due dates, a card with 1
\* repetition after a card with 3 that is due earlier.
C14_LearningBeforeMature ==
    \A i, j \in 1..Len(sortOut) :
        /\ (variant = "graduated" /\ sortOut[i].repetitions >= MASTERY_THRESHOLD
              /\ sortOut[j].repetitions < MASTERY_THRESHOLD) => j < i
        /\ (variant = "flat" /\ sortOut[i].repetitions > 0
              /\ sortOut[j].repetitions = 0) => j < i
        /\ (variant = "flat" /\ sortOut[i].repetitions > 0
              /\ sortOut[j].repetitions > 0
              /\ sortOut[i].dueDate < sortOut[j].dueDate) => i < j

\* graduated: a card with 3 repetitions due later stands before a mature card
\* due earlier
C14_Witness ==
    /\ variant = "graduated"
    /\ Len(sortOut) >= 2
    /\ sortOut[1].repetitions = 3
    /\ sortOut[2].repetitions = MASTERY_THRESHOLD
    /\ sortOut[1].dueDate > sortOut[2].dueDate

\* C34: the array sortCardsForReview returns holds the cards it was given,
\* each once and as it was; two cards of the same tier (flat: both with
\* repetitions 0 or both with more; graduated: both below MASTERY_THRESHOLD or
\* both at or above it) stand in the order of their due dates and, with the
\* same due date, of the base letters of their fronts; and when no two cards
\* have tier, due date and base letters in common, every order of the same
\* cards gives the same array.
C34_SortIsOrderedPermutation ==
    sortOut # <<>> =>
        LET learning(c) == IF variant = "flat" THEN c.repetitions = 0
                           ELSE c.repetitions < MASTERY_THRESHOLD
            tie(a, b) == /\ learning(a) = learning(b)
                         /\ a.dueDate = b.dueDate
                         /\ a.front[1] = b.front[1]
        IN /\ Len(sortOut) = Len(sortIn)
           /\ \A i \in 1..Len(sortIn) :
                 Cardinality({j \in 1..Len(sortOut) : sortOut[j] = sortIn[i]}) = 1
           /\ \A i, j \in 1..Len(sortOut) :
                 (i < j /\ learning(sortOut[i]) = learning(sortOut[j])) =>
                    \/ sortOut[i].dueDate < sortOut[j].dueDate
                    \/ /\ sortOut[i].dueDate = sortOut[j].dueDate
                       /\ sortOut[i].front[1] <= sortOut[j].front[1]
           /\ (\A i, j \in 1..Len(sortIn) : i # j => ~tie(sortIn[i], sortIn[j])) =>
                 \A other \in Shuffles(sortIn) :
                    sortCardsForReview(variant, other) = sortOut

\* three cards of one tier given in another order than the one returned: two
\* due at the same time, in the order of their fronts, then one due later
\* whose front is as that of the first but for its accents
C34_Witness ==
    /\ Len(sortOut) = MaxSort
    /\ sortOut # sortIn
    /\ \A i \in 1..Len(sortOut) : sortOut[i].repetitions = 1
    /\ sortOut[1].dueDate = sortOut[2].dueDate
    /\ sortOut[1].front[1] < sortOut[2].front[1]
    /\ sortOut[2].dueDate < sortOut[3].dueDate
    /\ sortOut[3].front[1] = sortOut[1].front[1]
    /\ sortIn[1] = sortOut[3]

----------------------------------------------------------------------------
\* Properties of the session controller, checked under Spec.

\* C3: when the store has saved a review rated Fail, the queue is as long as
\* before, the failed card (as updated) is its last entry, the other cards are
\* all there in the order they had, and cursor and reviewed count are as before,
\* the cursor now at the card that followed the failed one.
C3_FailRequeues ==
    [][(ReviewDone /\ Head(pending).quality = 0) =>
         LET t == Head(pending) IN
           /\ Len(studyQueue') = Len(studyQueue)
           /\ studyQueue'[Len(studyQueue')] = t.updated
           /\ FilterOutId(studyQueue', t.card.id) = FilterOutId(studyQueue, t.card.id)
           /\ currentCardIndex' = currentCardIndex
           /\ reviewedCount' = reviewedCount
           /\ currentCardIndex + 1 < Len(studyQueue) =>
                studyQueue'[currentCardIndex' + 1] = studyQueue[currentCardIndex + 2]
    ]_vars

\* C4: when the store has saved a review rated Good or Easy, the reviewed
\* count and the cursor are each one more than before and the queue is the
\* same, entry for entry.
C4_PassAdvances ==
    [][(ReviewDone /\ Head(pending).quality \in {3, 5}) =>
         /\ reviewedCount' = reviewedCount + 1
         /\ currentCardIndex' = currentCardIndex + 1
         /\ studyQueue' = studyQueue
    ]_vars

\* Good was rated on the first card of three and saved
C4_Witness ==
    /\ hist.phase = "done"
    /\ hist.quality = 3
    /\ hist.index = 0
    /\ Len(studyQueue) = NumCards
    /\ studyQueue = hist.queue
    /\ currentCardIndex = 1
    /\ reviewedCount = 1
    /\ db[studyQueue[1].id].repetitions = 1

\* C5: in a Study session, a Good or Easy review and the undo right after it
\* leave the stored card, the queue, the cursor and the reviewed count as they
\* were before the review.
C5_UndoRestores ==
    (hist.phase = "undone" /\ hist.quality \in {3, 5} /\ ~isPracticeMode) =>
        /\ db[hist.queue[hist.index + 1].id] = hist.stored
        /\ studyQueue = hist.queue
        /\ currentCardIndex = hist.index
        /\ reviewedCount = hist.reviewed

\* C6: the undo slot holds one entry at most, the card and cursor of the
\* latest rating; an undo on an empty slot changes nothing; an undo that went
\* through empties the slot, so that a second one finds it empty; and an undo
\* rewrites the stored card of its entry and no other, so a rating before the
\* latest one is not reverted.
C6_SingleSlotUndo ==
    /\ [](Len(lastAction) <= 1)
    /\ [][(UndoBegin /\ lastAction = <<>>) =>
            UNCHANGED <<db, studyQueue, currentCardIndex, reviewedCount,
                        lastAction, pending, currentScreen, flipped, toast>>]_vars
    /\ [][(UndoDone /\ lastAction # <<>>) => lastAction' = <<>>]_vars
    /\ [][(UndoDone /\ lastAction = <<>>) =>
            UNCHANGED <<studyQueue, currentCardIndex, reviewedCount, lastAction>>]_vars
    /\ [][((\E q \in Qualities : ReviewBegin(q)) /\ PersistsReviews) =>
            lastAction' = <<UndoEntry(ArrayGet(studyQueue, currentCardIndex),
                                      currentCardIndex)>>]_vars
    /\ [][UndoDone =>
            \A id \in DOMAIN db :
                id # Head(pending).card.id => db'[id] = db[id]]_vars

\* two cards were rated Good one after the other and one undo followed: the
\* second card is stored as it was, the first one stays reviewed, and the
\* slot is empty
C6_Witness ==
    /\ nReviews = 2
    /\ toast = "Undone"
    /\ lastAction = <<>>
    /\ pending = <<>>
    /\ Len(studyQueue) = NumCards
    /\ currentCardIndex = 1
    /\ reviewedCount = 1
    /\ db[studyQueue[1].id].repetitions = 1
    /\ db[studyQueue[2].id].lastReviewed = Null

\* C7: a review changes queue, cursor and reviewed count neither before its
\* write to the store is settled nor when the store rejects it; when it does
\* change them the store holds the updated card.
C7_ChangeOnlyAfterPersisted ==
    /\ [][((\E q \in Qualities : ReviewBegin(q)) /\ PersistsReviews) =>
            UNCHANGED <<studyQueue, currentCardIndex, reviewedCount>>]_vars
    /\ [][ReviewFailed =>
            UNCHANGED <<studyQueue, currentCardIndex, reviewedCount, db>>]_vars
    /\ [][ReviewDone => db'[Head(pending).card.id] = Head(pending).updated]_vars

\* the store rejected the only review so far: the card is stored as it was and
\* is still the current card of the session, nothing counted
C7_Witness ==
    /\ nReviews = 1
    /\ pending = <<>>
    /\ currentScreen = "study"
    /\ lastAction # <<>>
    /\ currentCardIndex = lastAction[1].index
    /\ reviewedCount = 0
    /\ ArrayGet(studyQueue, currentCardIndex) = lastAction[1].card
    /\ db[lastAction[1].card.id] = lastAction[1].card
    /\ db[lastAction[1].card.id].lastReviewed = Null

\* C8: at most one review or undo is in progress at any time: none begins
\* while another waits for the store.
C8_OneReviewAtATime ==
    Len(SelectSeq(pending, LAMBDA t : t.op \in {"review", "undo"})) <= 1

\* C9: a start that finds candidates shows the study screen with the cursor at
\* 0, the reviewed count at 0 and the undo slot empty, whatever the session
\* before left there; an undo given then changes nothing.
C9_StartResets ==
    /\ [][(StartDone /\ \E cards \in Candidates(Head(pending)) : Len(cards) > 0) =>
            /\ currentCardIndex' = 0
            /\ reviewedCount' = 0
            /\ lastAction' = <<>>
            /\ currentScreen' = "study"
            /\ studyQueue' \in Candidates(Head(pending))]_vars
    /\ [][(UndoBegin /\ lastAction = <<>>) =>
            UNCHANGED <<db, studyQueue, currentCardIndex, reviewedCount, pending>>]_vars

\* a second session has started after one that had rated cards and left its
\* undo entry in the slot
C9_Witness ==
    /\ app = "new"
    /\ nStarts = 2
    /\ nReviews >= 1
    /\ toast = ""
    /\ pending = <<>>
    /\ currentScreen = "study"
    /\ Len(studyQueue) > 0
    /\ currentCardIndex = 0
    /\ reviewedCount = 0
    /\ lastAction = <<>>

\* C10: a start that finds no candidate says so and leaves the screen, the
\* queue, the cursor, the reviewed count and the undo slot as they were.
C10_EmptyStart ==
    [][(StartDone /\ \E cards \in Candidates(Head(pending)) : Len(cards) = 0) =>
         /\ toast' \in {"No cards due for review!", "No cards to practice!"}
         /\ UNCHANGED <<currentScreen, studyQueue, currentCardIndex,
                        reviewedCount, lastAction>>]_vars

\* a Study start found nothing due, the queue, the count and the undo entry of
\* the session before still there
C10_Witness ==
    /\ toast = "No cards due for review!"
    /\ currentScreen = "home"
    /\ pending = <<>>
    /\ Len(studyQueue) = NumCards
    /\ reviewedCount > 0
    /\ lastAction # <<>>

----------------------------------------------------------------------------
\* Properties of the session controller, checked under RatingSpec.

----------------------------------------------------------------------------
\* Further properties of the session controller, checked under Spec.

\* C19: when the end-study action is confirmed, no entry remains in the queue
\* and none in the undo slot, and the stored cards are as they were.
C19_EndDiscardsSession ==
    [][EndStudy => (studyQueue' = <<>> /\ lastAction' = <<>> /\ db' = db)]_vars

\* C20: in the old controller, a rating or an undo request given in practice
\* mode starts no write to the store and changes no stored card, nor the undo
\* slot.
C20_OldPracticeNeverPersists ==
    [][(app = "old" /\ isPracticeMode
          /\ ((\E q \in Qualities : ReviewBegin(q)) \/ UndoBegin)) =>
         (db' = db /\ pending' = pending /\ lastAction' = lastAction)]_vars

\* the old controller's only session, a Practice session, has taken Fail and
\* other ratings: no card in the store was ever reviewed
C20_Witness ==
    /\ app = "old"
    /\ isPracticeMode
    /\ nStarts = 1
    /\ nReviews = MaxReviews
    /\ reviewedCount >= 1
    /\ reviewedCount < nReviews
    /\ pending = <<>>
    /\ lastAction = <<>>
    /\ Len(db) = NumCards
    /\ \A id \in DOMAIN db : db[id] = createCard(id, Front(id), 0)

C25_CursorWithinQueue ==
    /\ [](/\ 0 <= currentCardIndex
          /\ currentCardIndex <= Len(studyQueue)
          /\ currentScreen = "study" => currentCardIndex < Len(studyQueue))
    /\ [][(ReviewDone \/ (~PersistsReviews /\ \E q \in Qualities : ReviewBegin(q))) =>
            ((currentScreen # "complete" /\ currentScreen' = "complete")
               <=> (currentScreen # "complete"
                      /\ currentCardIndex' >= Len(studyQueue')))]_vars

\* C26: a review rated Fail and the undo right after it leave the queue (its
\* order and its length) and the cursor as they were before the review, the
\* card back at the index it had, and the stored card equal to the card the
\* queue held there.
C26_UndoOfFailRestores ==
    (hist.phase = "undone" /\ hist.quality = 0) =>
        /\ studyQueue = hist.queue
        /\ Len(studyQueue) = Len(hist.queue)
        /\ currentCardIndex = hist.index
        /\ db[hist.queue[hist.index + 1].id] = hist.queue[hist.index + 1]

\* C27: in every state the reviewed count equals the cursor, the number of
\* cards of the session that were rated Good or Easy and not undone.
C27_CountEqualsCursor == reviewedCount = currentCardIndex

\* C28: the queue of a session holds each card it started with exactly once,
\* whatever handlers overlap: no entry is an empty slot, no two entries have
\* the same id, and no step but the start of a session changes how often an
\* id is in the queue.
C28_EachCardOnce ==
    /\ [](\A i, j \in 1..Len(studyQueue) :
            /\ studyQueue[i] # Hole
            /\ i # j => studyQueue[i].id # studyQueue[j].id)
    /\ [][~StartDone =>
            \A id \in CardIds :
               Cardinality({i \in 1..Len(studyQueue') : studyQueue'[i].id = id})
                 = Cardinality({i \in 1..Len(studyQueue) : studyQueue[i].id = id})]_vars

\* C29: when the store rejects the write of a review, the undo slot is as it
\* was before the rating was given; and an undo that follows leaves the
\* reviewed count, the cursor and the queue as they were before that rating.
C29_FailedReviewKeepsUndoSlot ==
    /\ [][(ReviewFailed /\ hist.phase = "begun") => lastAction' = hist.slot]_vars
    /\ [](hist.phase = "failedUndone" =>
            /\ reviewedCount = hist.reviewed
            /\ currentCardIndex = hist.index
            /\ studyQueue = hist.queue)

\* C30: a review does not take the session to the complete screen while the
\* latest rating of a card of the queue is Fail, that is, while the last
\* review of the card still waiting for the store is rated Fail or, none
\* waiting, the card is stored as a failed review leaves it (reviewed, with
\* repetitions 0): a card rated Fail has to come up again and be rated Good or
\* Easy before the reviews can end the session.
C30_NoCompletionAfterFail ==
    [][(ReviewDone /\ currentScreen # "complete" /\ currentScreen' = "complete") =>
         \A i \in 1..Len(studyQueue') :
            studyQueue'[i] # Hole =>
              LET id == studyQueue'[i].id
                  waiting == SelectSeq(pending',
                                LAMBDA t : t.op = "review" /\ t.card.id = id)
              IN IF waiting # <<>> THEN waiting[Len(waiting)].quality # 0
                 ELSE ~(db'[id].repetitions = 0 /\ db'[id].lastReviewed # Null)
    ]_vars

\* C31: the number of cards still to go, the length of the queue less the
\* cursor, is the same after a review rated Fail as before it and one less
\* after a review rated Good or Easy; so it never goes up on a review, and
\* ratings that are saved and in the end are not Fail bring it to 0, where
\* the session is complete.
C31_RemainingNeverGrows ==
    /\ [][ReviewDone =>
            LET remaining == Len(studyQueue) - currentCardIndex
                remainingAfter == Len(studyQueue') - currentCardIndex'
            IN /\ remainingAfter <= remaining
               /\ Head(pending).quality = 0 => remainingAfter = remaining
               /\ Head(pending).quality \in {3, 5} => remainingAfter = remaining - 1]_vars
    /\ [][\A q \in Qualities :
            (~PersistsReviews /\ ReviewBegin(q)) =>
               Len(studyQueue') - currentCardIndex' =
                  Len(studyQueue) - currentCardIndex - (IF q = 0 THEN 0 ELSE 1)]_vars

\* C32: in a mode that saves ratings, while no review and no undo waits for
\* the store, every entry of the queue at or after the cursor is a card equal,
\* field for field, to the card stored under its id.
C32_QueueMatchesStore ==
    (PersistsReviews
       /\ \A k \in 1..Len(pending) : pending[k].op \notin {"review", "undo"}) =>
        \A i \in (currentCardIndex + 1)..Len(studyQueue) :
            /\ studyQueue[i] # Hole
            /\ studyQueue[i] = db[studyQueue[i].id]

====
